---------------------------- MODULE Spec2Model ----------------------------
(***************************************************************************)
(* A model of the IEEE PDF agent: the web interface (app.py) with its      *)
(* in-memory session store, the convert request and the background         *)
(* conversion thread, and the agent (pdf_agent.py) that runs pandoc with   *)
(* one fallback and mails the result.                                      *)
(*                                                                         *)
(* Python dictionaries are references: a session and a file record are     *)
(* objects that handlers and threads hold on to.  session_objs[id] lists   *)
(* the session dictionaries ever created for a session id, and             *)
(* sessions[id] is the place in that list of the one the `sessions` map    *)
(* holds now (0: the key is absent).  A file record is named by its        *)
(* session id, its session object and its index in that object's file     *)
(* list (records are only ever appended).                                  *)
(***************************************************************************)
EXTENDS Integers, Sequences, FiniteSets, TLC

\* ------------------------------------------------------------------ bounds
\* Uploads accepted in one run.
MaxFiles == 2
\* Background threads started in one run.
MaxJobs == 2
\* Faults the environment raises in one run (a publish call that raises, a
\* thread that cannot be started).
MaxFaults == 1
\* Dismiss requests that get past validation in one run.
MaxDismiss == 3
\* The same for a run with a single upload and a single thread.
SoloFiles == 1
SoloJobs == 1
\* Request handlers that enter get_session in one run.
MaxRequests == 3

\* ------------------------------------------------------------ input values
SessionIds == {"s1", "s2"}
\* Stored filenames (timestamp prefix included); stems a and b.
Filenames == {"a.md", "b.tex"}
\* What a request may carry as session_id / filename: "" is falsy (absent).
ReqSessionIds == SessionIds \cup {""}
ReqFilenames == Filenames \cup {""}
UpdateIds == {"v1.1.0", "v1.0.0"}
ReqUpdateIds == UpdateIds \cup {""}

\* Python values: a dictionary key that is absent, and None.
Unset == "<unset>"
None == "None"

\* The options object of a convert request.  is_dict = FALSE is a JSON value
\* that is no object (null, a string): options.get then raises.  A key the
\* object lacks is Unset.
Opt(d, se, er) == [is_dict |-> d, send_email |-> se, email_recipient |-> er]
Options ==
    { Opt(FALSE, Unset, Unset),
      Opt(TRUE, "false", Unset),
      Opt(TRUE, Unset, Unset),
      Opt(TRUE, "true", "r1@x") }

\* How a call of socketio.emit can end: it returns, it raises after the event
\* went out to some client ("raised"), or it raises before the event went
\* out at all ("dropped").
PublishOutcomes == {"returned", "raised", "dropped"}
\* How subprocess.run can end: exit status zero, non-zero, or it raises.
RunOutcomes == {"zero", "nonzero", "raised"}

VARIABLES
    sessions,      \* app.py:41  sessions: session id -> place in session_objs[id], 0 if absent
    session_objs,  \* the session dictionaries created so far, per session id
    threads,       \* the background threads started by convert_file, with their locals
    events,        \* the conversion_status events handed to socketio.emit
    outdir,        \* the PDFs in the output directory, oldest ctime first
    config,        \* agent.config (shared by all threads)
    faults,        \* faults raised so far
    handlers,      \* dismiss_update handlers past their membership test
    limits,        \* what the environment does in this run: how many uploads,
                   \* threads and faults, and whether requests ask for email
    config_file,   \* config.json on disk
    cwd_files,     \* the template files there are in the working directory
    requests       \* request handlers that are inside get_session or past it

vars == <<sessions, session_objs, threads, events, outdir, config, faults, handlers,
          limits, config_file, cwd_files, requests>>

\* --------------------------------------------------------- configuration
\* pdf_agent.py:46-73
default_config ==
    [ email  |-> [ smtp_server |-> "smtp.gmail.com", smtp_port |-> 587,
                   username |-> "", password |-> "",
                   from_email |-> "", to_email |-> "" ],
      openai |-> [ api_key |-> "", model |-> "gpt-4o-mini",
                   temperature |-> "0.3", max_tokens |-> 4000 ],
      pandoc |-> [ engine |-> "xelatex", template |-> "ieee_template_proper.tex",
                   options |-> <<"--standalone", "--toc", "--number-sections">> ],
      output |-> [ directory |-> "output" ] ]

\* No config.json on disk.
NoFile == [missing |-> TRUE]

\* Documents a config.json may hold: a filled-in one, and one whose email
\* section names the account but no recipient.
ConfigDocs ==
    { [ email  |-> [ smtp_server |-> "smtp.x", smtp_port |-> 587,
                     username |-> "u", password |-> "p",
                     from_email |-> "", to_email |-> "cfg@x" ],
        output |-> [ directory |-> "output" ] ],
      [ email  |-> [ username |-> "u", password |-> "p" ] ] }

\* pdf_agent.py:74-85: an existing file is read and the top-level sections it
\* lacks are taken from the defaults; a missing file yields the defaults.
load_config(doc) ==
    IF doc = NoFile
    THEN default_config
    ELSE [ k \in (DOMAIN doc) \cup (DOMAIN default_config) |->
             IF k \in DOMAIN doc THEN doc[k] ELSE default_config[k] ]

\* pdf_agent.py:81-83: config.json after load_config: a missing file is
\* written with the defaults.
save_config(doc) == IF doc = NoFile THEN default_config ELSE doc

\* agent.config before the PDFAgent is constructed.
NoConfig == [loaded |-> FALSE]

\* pdf_agent.py:38-39 PDFAgent.__init__: the configuration is loaded.
PDFAgent_init ==
    /\ config = NoConfig
    /\ config' = load_config(config_file)
    /\ config_file' = save_config(config_file)
    /\ UNCHANGED <<sessions, session_objs, threads, events, outdir, faults, handlers,
                   limits, cwd_files, requests>>

HasKey(d, k) == k \in DOMAIN d

\* Python truthiness of a string-valued entry.
Truthy(v) == v \notin {"", None, Unset}

\* ------------------------------------------------------------ session store
NewSession == [files |-> <<>>, dismissed_updates |-> <<>>]

\* app.py:81-91 get_session: the heap, the map and the returned reference
\* after the call.
get_session_objs(session_id) ==
    IF sessions[session_id] = 0
    THEN [session_objs EXCEPT ![session_id] = Append(@, NewSession)]
    ELSE session_objs
get_session_map(session_id) ==
    IF sessions[session_id] = 0
    THEN [sessions EXCEPT ![session_id] = Len(session_objs[session_id]) + 1]
    ELSE sessions
get_session(session_id) ==
    IF sessions[session_id] = 0
    THEN Len(session_objs[session_id]) + 1
    ELSE sessions[session_id]

\* Every file record there is, as <<session id, session object, index>>.
FileRefs ==
    { r \in SessionIds \X (1..MaxFiles + MaxJobs + MaxDismiss + 1) \X (1..MaxFiles + 1) :
        /\ r[2] <= Len(session_objs[r[1]])
        /\ r[3] <= Len(session_objs[r[1]][r[2]].files) }
FileAt(ref) == session_objs[ref[1]][ref[2]].files[ref[3]]
NumFiles == Cardinality(FileRefs)
\* The records a session query can reach: those of the dictionaries the
\* `sessions` map holds.
StoredRefs == {r \in FileRefs : sessions[r[1]] = r[2]}

\* app.py:120-126: the record an upload appends.
NewFileRecord(filename) ==
    [filename |-> filename, status |-> "uploaded", pdf_path |-> Unset, error |-> Unset]

\* str.lower, letter by letter.
UpperCase == "ABCDEFGHIJKLMNOPQRSTUVWXYZ"
LowerCase == "abcdefghijklmnopqrstuvwxyz"
lower_char(c) ==
    IF \E i \in 1..Len(UpperCase) : SubSeq(UpperCase, i, i) = c
    THEN LET i == CHOOSE i \in 1..Len(UpperCase) : SubSeq(UpperCase, i, i) = c
         IN  SubSeq(LowerCase, i, i)
    ELSE c
RECURSIVE lower(_)
lower(str) ==
    IF str = "" THEN "" ELSE lower_char(SubSeq(str, 1, 1)) \o lower(SubSeq(str, 2, Len(str)))

\* Path(filename).suffix: from the last dot on, "" when there is no dot or
\* the only dot leads or ends the name.
suffix(filename) ==
    LET dots == {i \in 1..Len(filename) : SubSeq(filename, i, i) = "."} IN
    IF dots = {}
    THEN ""
    ELSE LET last == CHOOSE i \in dots : \A k \in dots : k <= i
         IN  IF last = 1 \/ last = Len(filename)
             THEN ""
             ELSE SubSeq(filename, last, Len(filename))

\* app.py:71
ALLOWED_EXTENSIONS == {".md", ".markdown", ".tex", ".latex"}

\* Every name passes.
allowed_file_any(filename) == TRUE

\* app.py:73-75
allowed_file(filename) == lower(suffix(filename)) \in ALLOWED_EXTENSIONS

\* app.py:102-111, 134-135: the HTTP status upload_file answers with before
\* it touches the store: 400, or 0 when the upload is accepted.  has_file:
\* the request has a 'file' part.
upload_rejection(has_file, filename) ==
    IF ~has_file THEN 400
    ELSE IF filename = "" THEN 400
    ELSE IF ~allowed_file(filename) THEN 400
    ELSE 0

\* app.py:119-126: the heap and the `sessions` map after the handler.
upload_objs(session_id, has_file, filename) ==
    IF upload_rejection(has_file, filename) # 0
    THEN session_objs
    ELSE [get_session_objs(session_id) EXCEPT
            ![session_id][get_session(session_id)].files =
                Append(@, NewFileRecord(filename))]
upload_map(session_id, has_file, filename) ==
    IF upload_rejection(has_file, filename) # 0
    THEN sessions
    ELSE get_session_map(session_id)

\* app.py:98-139 upload_file.  filename is the name the file is stored
\* under (the timestamp prefix is left out).
upload_file(session_id, has_file, filename) ==
    /\ upload_rejection(has_file, filename) = 0 => NumFiles < limits.files
    /\ session_objs' = upload_objs(session_id, has_file, filename)
    /\ sessions' = upload_map(session_id, has_file, filename)
    /\ UNCHANGED <<threads, events, outdir, config, faults, handlers, limits, config_file, cwd_files, requests>>

\* A lookup that falls back on the session's first record.
find_file_or_first(files, filename) ==
    LET hits == {i \in 1..Len(files) : files[i].filename = filename}
    IN  IF hits = {}
        THEN (IF files = <<>> THEN 0 ELSE 1)
        ELSE CHOOSE i \in hits : \A k \in hits : i <= k

\* app.py:156-160: the first record of the session whose filename matches,
\* as its index; 0 when there is none.
find_file(files, filename) ==
    LET hits == {i \in 1..Len(files) : files[i].filename = filename}
    IN  IF hits = {} THEN 0 ELSE CHOOSE i \in hits : \A k \in hits : i <= k

\* app.py:169-172: the thread object convert_file builds, with the locals of
\* process_conversion and of the agent calls it makes.
\*   calls      the pandoc invocations made, with how each ended
\*   pdf_path   what convert_to_ieee_format returned ("" for a failure)
\*   sends      the number of send_email calls made
\*   mailed     the To header of each message handed to SMTP
\*   latest_pdf what the thread stored as the record's pdf_path
\*   wrote      the statuses this thread assigned to its file record
NewThread(session_id, ref, options) ==
    [ session_id |-> session_id, file |-> ref, options |-> options,
      pc |-> "emit_processing",
      send_email |-> Unset, email_recipient |-> Unset,
      calls |-> <<>>, pdf_path |-> Unset,
      original_recipient |-> Unset, latest_pdf |-> Unset,
      sends |-> 0, mailed |-> <<>>, wrote |-> <<>> ]

\* The thread has ended: "done" when process_conversion returned, "dead" when
\* an exception left it.  Its locals are gone; what the claims are about is
\* kept: the record it worked on, the invocations it made, what its
\* conversion returned and the statuses it assigned.
ended(t, pc) ==
    [ NewThread(t.session_id, t.file, Opt(TRUE, Unset, Unset)) EXCEPT
        !.pc = pc, !.calls = t.calls, !.pdf_path = t.pdf_path,
        !.latest_pdf = t.latest_pdf, !.wrote = t.wrote ]

\* app.py:150-163: the HTTP status convert_file answers with before it
\* touches any record: 400, 404, or 0 when the request is accepted.
convert_rejection(session_id, filename) ==
    IF ~Truthy(session_id) \/ ~Truthy(filename)
    THEN 400
    ELSE IF find_file(get_session_objs(session_id)[session_id]
                          [get_session(session_id)].files, filename) = 0
         THEN 404
         ELSE 0

\* app.py:198 and pdf_agent.py:209: the request makes the agent mail the PDF.
asks_email(options) == options.is_dict /\ options.send_email # "false"

\* app.py:165-166: the record after the convert request marked it.
\* A request that leaves the status as it is.
mark_nothing(file) == file

mark_processing(file) == [file EXCEPT !.status = "processing"]

\* app.py:141-184 convert_file.  started = FALSE: thread.start() raises, the
\* handler's except answers 500.
convert_file(session_id, filename, options, started) ==
    LET code == convert_rejection(session_id, filename) IN
    IF code = 400
    THEN /\ ~started
         /\ options = Opt(TRUE, Unset, Unset)
         /\ UNCHANGED vars
    ELSE
      LET objs == get_session_objs(session_id)
          s == get_session(session_id)
          i == find_file(objs[session_id][s].files, filename)
      IN  IF code = 404
          THEN /\ ~started
               /\ options = Opt(TRUE, Unset, Unset)
               /\ sessions' = get_session_map(session_id)
               /\ session_objs' = objs
               /\ UNCHANGED <<threads, events, outdir, config, faults, handlers, limits, config_file, cwd_files, requests>>
          ELSE /\ Len(threads) < limits.jobs
               /\ limits.email \/ ~asks_email(options)
               /\ sessions' = get_session_map(session_id)
               /\ session_objs' =
                    [objs EXCEPT ![session_id][s].files[i] = mark_processing(@)]
               /\ IF started
                  THEN /\ threads' =
                            Append(threads, NewThread(session_id, <<session_id, s, i>>, options))
                       /\ faults' = faults
                  ELSE /\ faults < limits.faults
                       /\ faults' = faults + 1
                       /\ threads' = threads
               /\ UNCHANGED <<events, outdir, config, handlers, limits, config_file, cwd_files, requests>>

\* --------------------------------------------------- the background thread
StatusEvent(j, status, pdf_path) ==
    [ job |-> j, n |-> Cardinality({e \in events : e.job = j}) + 1,
      session_id |-> threads[j].session_id,
      filename |-> FileAt(threads[j].file).filename,
      status |-> status, pdf_path |-> pdf_path ]

\* socketio.emit: the event goes out on the bus (job and n, its place among
\* the job's events, are bookkeeping); a call that raises is a fault.
publish(j, status, pdf_path, outcome) ==
    /\ events' = IF outcome = "dropped"
                 THEN events
                 ELSE events \cup {StatusEvent(j, status, pdf_path)}
    /\ IF outcome = "returned"
       THEN faults' = faults
       ELSE faults < limits.faults /\ faults' = faults + 1

\* The thread's assignment to file_info['status'] (and what goes with it).
write_file(j, file) ==
    session_objs' =
        [session_objs EXCEPT
           ![threads[j].file[1]][threads[j].file[2]].files[threads[j].file[3]] = file]

\* app.py:188-199: publish "processing", then read the options.
emit_processing(j, outcome) ==
    LET t == threads[j] IN
    /\ t.pc = "emit_processing"
    /\ publish(j, "processing", Unset, outcome)
    /\ threads' = [threads EXCEPT ![j] =
         IF outcome # "returned" \/ ~t.options.is_dict
         THEN [t EXCEPT !.pc = "except"]
         ELSE [t EXCEPT !.pc = "convert",
                        !.send_email =
                            IF t.options.send_email = Unset
                            THEN "true" ELSE t.options.send_email,
                        !.email_recipient =
                            IF t.options.email_recipient = Unset
                            THEN None ELSE t.options.email_recipient]]
    /\ UNCHANGED <<sessions, session_objs, outdir, config, handlers, limits, config_file, cwd_files, requests>>

\* ------------------------------------------------------------- the agent
\* Path(input_file).stem of the stored upload.
stem(filename) ==
    CASE filename = "a.md" -> "a"
      [] filename = "b.tex" -> "b"

\* pdf_agent.py:124-128: the output file of a conversion.
output_file(filename) == config.output.directory \o "/" \o stem(filename) \o "_IEEE.pdf"

\* A pandoc run that exits with status zero leaves its output file in the
\* output directory with the newest ctime.
touch(dir, path) == Append(SelectSeq(dir, LAMBDA p : p # path), path)

\* pdf_agent.py:208-218: where process_file goes once it has a PDF.
after_convert(t) ==
    IF t.send_email = "true"
    THEN IF Truthy(t.email_recipient) THEN "email_override" ELSE "email_send"
    ELSE "set_completed"

\* A retry that does not look at the exit status.
needs_fallback_always(primary_outcome) == TRUE

\* pdf_agent.py:175-183: the fallback runs when the primary invocation
\* returned a non-zero exit status.
needs_fallback(primary_outcome) == primary_outcome = "nonzero"

\* pdf_agent.py:173-189: the invocations one call of convert_to_ieee_format
\* makes, given how the primary and (if it runs) the fallback end.
pandoc_calls(primary_outcome, fallback_outcome) ==
    LET first == <<[kind |-> "primary", outcome |-> primary_outcome]>>
    IN  IF needs_fallback(primary_outcome)
        THEN Append(first, [kind |-> "fallback", outcome |-> fallback_outcome])
        ELSE first

\* pdf_agent.py:175-193: what convert_to_ieee_format returns: the output
\* file when its last invocation exited with status zero, "" otherwise.
convert_result(calls, out) ==
    IF calls[Len(calls)].outcome = "zero" THEN out ELSE ""

\* app.py:115: where the upload was saved.
input_file(filename) == "uploads/" \o filename

\* str.startswith
startswith(str, prefix) ==
    Len(str) >= Len(prefix) /\ SubSeq(str, 1, Len(prefix)) = prefix

\* Path(p).exists() for a template path.
exists(path) == path \in cwd_files

\* Path.cwd() / template, for a relative template path: the same file.
local_template(template) == "/app/" \o template
local_exists(template) == exists(template)

\* dict.get(key, default) on a section of the configuration.
get(section, key, default) == IF HasKey(section, key) THEN section[key] ELSE default

\* The template arguments without a look at the disk.
template_args_unchecked ==
    LET template == get(config.pandoc, "template", None) IN
    IF Truthy(template)
    THEN <<"--template", template>>
    ELSE <<"--template", "ieee_template_proper.tex">>

\* pdf_agent.py:137-153: the template arguments of the command.
template_args ==
    LET template == get(config.pandoc, "template", None) IN
    IF Truthy(template)
    THEN IF exists(template)
         THEN <<"--template", template>>
         ELSE IF local_exists(template)
              THEN <<"--template", local_template(template)>>
              ELSE <<>>
    ELSE IF exists("ieee_template_proper.tex")
         THEN <<"--template", "ieee_template_proper.tex">>
         ELSE <<>>

\* pdf_agent.py:156-165
ieee_options ==
    << "--standalone", "--number-sections", "--columns", "72",
       "-V", "geometry:margin=1in", "-V", "fontsize=10pt",
       "-V", "documentclass=IEEEtran", "-V", "classoption=10pt,conference",
       "--top-level-division=section" >>

\* pdf_agent.py:131-170: the command of the primary invocation.
pandoc_cmd(filename) ==
    << "pandoc", input_file(filename), "-o", output_file(filename),
       "--pdf-engine", get(config.pandoc, "engine", "xelatex") >>
    \o template_args \o ieee_options \o get(config.pandoc, "options", <<>>)

\* pdf_agent.py:182: the command of the fallback invocation.
cmd_without_template(cmd) ==
    SelectSeq(cmd, LAMBDA arg : ~startswith(arg, "--template"))

\* The invocations with the command each one ran.
with_args(calls, cmd) ==
    [ i \in 1..Len(calls) |->
        [ kind |-> calls[i].kind, outcome |-> calls[i].outcome,
          args |-> IF calls[i].kind = "primary" THEN cmd ELSE cmd_without_template(cmd) ] ]

\* pdf_agent.py:121-193 convert_to_ieee_format, called from process_file
\* (pdf_agent.py:202), itself called from process_conversion (app.py:201).
\* A failed primary invocation touches nothing the other threads see, so the
\* call is one step.  process_file returns False for "" (pdf_agent.py:204-206).
convert_to_ieee_format(j, primary_outcome, fallback_outcome) ==
    LET t == threads[j]
        out == output_file(FileAt(t.file).filename)
        calls == with_args(pandoc_calls(primary_outcome, fallback_outcome),
                           pandoc_cmd(FileAt(t.file).filename))
        result == convert_result(calls, out)
    IN  /\ t.pc = "convert"
        /\ needs_fallback(primary_outcome) \/ fallback_outcome = "zero"
        /\ threads' = [threads EXCEPT ![j] =
              [t EXCEPT !.calls = calls,
                        !.pdf_path = result,
                        !.pc = IF result = "" THEN "set_failed" ELSE after_convert(t)]]
        /\ outdir' = IF result = "" THEN outdir ELSE touch(outdir, out)
        /\ UNCHANGED <<sessions, session_objs, events, config, faults, handlers, limits, config_file, cwd_files, requests>>

\* pdf_agent.py:211-213: the recipient override.  A configuration whose
\* email section has no to_email raises KeyError here, which process_file's
\* except (pdf_agent.py:223-225) turns into False.
email_override(j) ==
    LET t == threads[j] IN
    /\ t.pc = "email_override"
    /\ IF HasKey(config.email, "to_email")
       THEN /\ threads' = [threads EXCEPT ![j] =
                 [t EXCEPT !.original_recipient = config.email.to_email,
                           !.pc = "email_send"]]
            /\ config' = [config EXCEPT !.email.to_email = t.email_recipient]
       ELSE /\ threads' = [threads EXCEPT ![j] = [t EXCEPT !.pc = "set_failed"]]
            /\ config' = config
    /\ UNCHANGED <<sessions, session_objs, events, outdir, faults, handlers, limits, config_file, cwd_files, requests>>

\* pdf_agent.py:92: the configuration check of send_email (a missing key
\* raises inside send_email's try and ends as False too).
email_configured(e) ==
    /\ HasKey(e, "username") /\ Truthy(e.username)
    /\ HasKey(e, "password") /\ Truthy(e.password)
    /\ HasKey(e, "to_email") /\ Truthy(e.to_email)

\* pdf_agent.py:219-221: process_file goes on to return True whatever
\* send_email returned.
after_email(t, sent) ==
    IF Truthy(t.email_recipient) THEN "email_restore" ELSE "set_completed"

\* pdf_agent.py:88-118 send_email, called from pdf_agent.py:214 and :218.
\* smtp_ok = FALSE: building or sending the message raises, which send_email
\* catches.  mailed lists the To header of every message handed to SMTP.
email_send(j, smtp_ok) ==
    LET t == threads[j]
        sent == email_configured(config.email) /\ smtp_ok
    IN
    /\ t.pc = "email_send"
    /\ threads' = [threads EXCEPT ![j] =
         [t EXCEPT !.sends = @ + 1,
                   !.mailed =
                      IF email_configured(config.email)
                      THEN Append(@, config.email.to_email)
                      ELSE @,
                   !.pc = after_email(t, sent)]]
    /\ UNCHANGED <<sessions, session_objs, events, outdir, config, faults, handlers, limits, config_file, cwd_files, requests>>

\* pdf_agent.py:215-216: the recipient is put back.
email_restore(j) ==
    LET t == threads[j] IN
    /\ t.pc = "email_restore"
    /\ config' = [config EXCEPT !.email.to_email = t.original_recipient]
    /\ threads' = [threads EXCEPT ![j] = [t EXCEPT !.pc = "set_completed"]]
    /\ UNCHANGED <<sessions, session_objs, events, outdir, faults, handlers, limits, config_file, cwd_files, requests>>

\* ------------------------------------- process_conversion after the agent
\* app.py:210-211: the newest PDF of the output directory.
latest_pdf(dir) == IF dir = <<>> THEN None ELSE dir[Len(dir)]

\* app.py:207-215: process_file returned True; the newest PDF is looked up
\* and status, pdf_path and completed_at are assigned (three assignments to
\* the one record, taken as one step).
set_completed(j) ==
    LET t == threads[j] IN
    /\ t.pc = "set_completed"
    /\ write_file(j, [FileAt(t.file) EXCEPT !.status = "completed",
                                            !.pdf_path = latest_pdf(outdir)])
    /\ threads' = [threads EXCEPT ![j] =
         [t EXCEPT !.latest_pdf = latest_pdf(outdir),
                   !.wrote = Append(@, "completed"),
                   !.pc = "emit_completed"]]
    /\ UNCHANGED <<sessions, events, outdir, config, faults, handlers, limits, config_file, cwd_files, requests>>

\* app.py:217-223: "completed" is published.
emit_completed(j, outcome) ==
    LET t == threads[j] IN
    /\ t.pc = "emit_completed"
    /\ publish(j, "completed", t.latest_pdf, outcome)
    /\ threads' = [threads EXCEPT ![j] =
         IF outcome = "returned" THEN ended(t, "done") ELSE [t EXCEPT !.pc = "except"]]
    /\ UNCHANGED <<sessions, session_objs, outdir, config, handlers, limits, config_file, cwd_files, requests>>

\* app.py:224-233: process_file returned False.
set_failed(j, outcome) ==
    LET t == threads[j] IN
    /\ t.pc = "set_failed"
    /\ write_file(j, [FileAt(t.file) EXCEPT !.status = "failed",
                                            !.error = "Conversion failed"])
    /\ publish(j, "failed", Unset, outcome)
    /\ threads' = [threads EXCEPT ![j] =
         LET u == [t EXCEPT !.wrote = Append(@, "failed")]
         IN  IF outcome = "returned" THEN ended(u, "done") ELSE [u EXCEPT !.pc = "except"]]
    /\ UNCHANGED <<sessions, outdir, config, handlers, limits, config_file, cwd_files, requests>>

\* app.py:235-245: the except clause of process_conversion.  When its own
\* publish call raises, the exception leaves the thread ("dead").
except_failed(j, outcome) ==
    LET t == threads[j] IN
    /\ t.pc = "except"
    /\ write_file(j, [FileAt(t.file) EXCEPT !.status = "failed",
                                            !.error = "exception"])
    /\ publish(j, "failed", Unset, outcome)
    /\ threads' = [threads EXCEPT ![j] =
         ended([t EXCEPT !.wrote = Append(@, "failed")],
               IF outcome = "returned" THEN "done" ELSE "dead")]
    /\ UNCHANGED <<sessions, outdir, config, handlers, limits, config_file, cwd_files, requests>>

\* pdf_agent.py:208-218: the email part of process_file, one step of thread j.
process_file_email(j) ==
    \/ email_override(j)
    \/ \E ok \in BOOLEAN : email_send(j, ok)
    \/ email_restore(j)

\* app.py:186-245 process_conversion: one step of thread j outside the email
\* part.
process_conversion(j) ==
    \/ \E o \in PublishOutcomes : emit_processing(j, o)
    \/ \E r1, r2 \in RunOutcomes : convert_to_ieee_format(j, r1, r2)
    \/ set_completed(j)
    \/ \E o \in PublishOutcomes : emit_completed(j, o)
    \/ \E o \in PublishOutcomes : set_failed(j, o)
    \/ \E o \in PublishOutcomes : except_failed(j, o)

\* --------------------------------------------------------- session query
\* app.py:260-264 get_session_info: the query creates the session when the
\* map does not hold it and is answered with the session dictionary.
get_session_info(session_id) ==
    /\ sessions' = get_session_map(session_id)
    /\ session_objs' = get_session_objs(session_id)
    /\ UNCHANGED <<threads, events, outdir, config, faults, handlers, limits, config_file, cwd_files, requests>>

\* app.py:264: the session dictionary a query for session_id is answered
\* with, in the current state.
session_info(session_id) ==
    IF sessions[session_id] = 0
    THEN NewSession
    ELSE session_objs[session_id][sessions[session_id]]

\* ------------------------------------------------------------ dismissals
\* app.py:271-283 dismiss_update up to the membership test.  A handler that
\* found the id missing goes on to append it.
dismiss_update(session_id, update_id) ==
    IF ~Truthy(session_id) \/ ~Truthy(update_id)
    THEN UNCHANGED vars
    ELSE
      LET objs == get_session_objs(session_id)
          s == get_session(session_id)
          present == \E i \in 1..Len(objs[session_id][s].dismissed_updates) :
                        objs[session_id][s].dismissed_updates[i] = update_id
      IN  /\ Len(handlers) < limits.dismiss
          /\ sessions' = get_session_map(session_id)
          /\ session_objs' = objs
          /\ handlers' = Append(handlers,
                [ session |-> <<session_id, s>>, update_id |-> update_id,
                  pc |-> IF present THEN "done" ELSE "append" ])
          /\ UNCHANGED <<threads, events, outdir, config, faults, limits, config_file, cwd_files, requests>>

\* app.py:284-286: the append of a handler whose test found the id missing.
dismiss_append(h) ==
    LET d == handlers[h] IN
    /\ d.pc = "append"
    /\ session_objs' =
         [session_objs EXCEPT ![d.session[1]][d.session[2]].dismissed_updates =
                                 Append(@, d.update_id)]
    /\ handlers' = [handlers EXCEPT ![h].pc = "done"]
    /\ UNCHANGED <<sessions, threads, events, outdir, config, faults, limits, config_file, cwd_files, requests>>

\* ------------------------------------------- get_session, step by step
\* Request handlers run in threads of their own, so a handler can be
\* overtaken between the statements of get_session (app.py:81-91).
RequestKinds == {"upload", "query", "dismiss"}

\* What a request of each kind carries besides the session id.
RequestArgs(kind) ==
    CASE kind = "upload" -> Filenames
      [] kind = "query" -> {None}
      [] kind = "dismiss" -> UpdateIds

\* Uploads that have entered get_session and have not appended yet.
uploading == {r \in 1..Len(requests) :
                requests[r].kind = "upload" /\ requests[r].pc # "returned"}

\* app.py:83: an accepted upload (app.py:119), a session query
\* (app.py:263) or a valid dismissal (app.py:281) calls get_session, which
\* tests `session_id not in sessions`.
get_session_test(kind, session_id, arg) ==
    /\ Len(requests) < MaxRequests
    /\ kind = "upload" => NumFiles + Cardinality(uploading) < limits.files
    /\ kind = "dismiss" =>
          Len(handlers) + Cardinality({r \in 1..Len(requests) :
                requests[r].kind = "dismiss" /\ requests[r].pc # "returned"})
            < limits.dismiss
    /\ requests' = Append(requests,
          [ kind |-> kind, session_id |-> session_id, arg |-> arg,
            pc |-> IF sessions[session_id] = 0 THEN "create" ELSE "lookup",
            ref |-> None ])
    /\ UNCHANGED <<sessions, session_objs, threads, events, outdir, config, faults,
                   handlers, limits, config_file, cwd_files>>

\* app.py:84-90: the handler found the id missing and stores a new session
\* dictionary under it, whatever the map holds by now.
get_session_create(r) ==
    LET q == requests[r] IN
    /\ q.pc = "create"
    /\ session_objs' = [session_objs EXCEPT ![q.session_id] = Append(@, NewSession)]
    /\ sessions' = [sessions EXCEPT ![q.session_id] = Len(session_objs[q.session_id]) + 1]
    /\ requests' = [requests EXCEPT ![r].pc = "lookup"]
    /\ UNCHANGED <<threads, events, outdir, config, faults, handlers, limits,
                   config_file, cwd_files>>

\* app.py:91 `return sessions[session_id]`, and what the caller does with
\* the dictionary: upload_file appends its record and answers success
\* (app.py:120-132), get_session_info answers (app.py:264), dismiss_update
\* makes its membership test (app.py:282).  ref: the record an upload
\* appended.
get_session_return(r) ==
    LET q == requests[r]
        sid == q.session_id
        s == sessions[sid]
        present == \E i \in 1..Len(session_objs[sid][s].dismissed_updates) :
                      session_objs[sid][s].dismissed_updates[i] = q.arg
    IN
    /\ q.pc = "lookup"
    /\ requests' = [requests EXCEPT ![r] =
          [q EXCEPT !.pc = "returned",
                    !.ref = IF q.kind = "upload"
                            THEN <<sid, s, Len(session_objs[sid][s].files) + 1>>
                            ELSE None]]
    /\ session_objs' =
          IF q.kind = "upload"
          THEN [session_objs EXCEPT ![sid][s].files = Append(@, NewFileRecord(q.arg))]
          ELSE session_objs
    /\ handlers' =
          IF q.kind = "dismiss"
          THEN Append(handlers,
                 [ session |-> <<sid, s>>, update_id |-> q.arg,
                   pc |-> IF present THEN "done" ELSE "append" ])
          ELSE handlers
    /\ UNCHANGED <<sessions, threads, events, outdir, config, faults, limits,
                   config_file, cwd_files>>

\* ------------------------------------------------------- specifications
Limits(files, jobs, nfaults, dismiss, email) ==
    [files |-> files, jobs |-> jobs, faults |-> nfaults, dismiss |-> dismiss,
     email |-> email]

Start ==
    /\ sessions = [s \in SessionIds |-> 0]
    /\ session_objs = [s \in SessionIds |-> <<>>]
    /\ threads = <<>>
    /\ events = {}
    /\ outdir = <<>>
    /\ faults = 0
    /\ handlers = <<>>
    /\ requests = <<>>

Configs == {load_config(d) : d \in ConfigDocs \cup {NoFile}}

\* Several uploads and threads; no request asks for email, nothing raises.
InitJobs ==
    /\ Start
    /\ cwd_files = {"ieee_template_proper.tex"}
    /\ limits = Limits(MaxFiles, MaxJobs, 0, 0, FALSE)
    /\ config = load_config(NoFile)
    /\ config_file = save_config(NoFile)

\* A single upload and thread, with email and faults, under each
\* configuration.
InitSolo ==
    /\ Start
    /\ cwd_files = {"ieee_template_proper.tex"}
    /\ limits = Limits(SoloFiles, SoloJobs, MaxFaults, 0, TRUE)
    /\ config \in Configs
    /\ config_file \in {save_config(d) : d \in ConfigDocs \cup {NoFile}}
    /\ config = load_config(config_file)

\* The whole pipeline: a run is of either kind.
Init == InitJobs \/ InitSolo

Next ==
    \/ \E s \in SessionIds, f \in Filenames : upload_file(s, TRUE, f)
    \/ \E s \in ReqSessionIds, f \in ReqFilenames, o \in Options, st \in BOOLEAN :
          convert_file(s, f, o, st)
    \/ \E j \in 1..Len(threads), o \in PublishOutcomes : emit_processing(j, o)
    \/ \E j \in 1..Len(threads), r1, r2 \in RunOutcomes : convert_to_ieee_format(j, r1, r2)
    \/ \E j \in 1..Len(threads) : email_override(j)
    \/ \E j \in 1..Len(threads), ok \in BOOLEAN : email_send(j, ok)
    \/ \E j \in 1..Len(threads) : email_restore(j)
    \/ \E j \in 1..Len(threads) : set_completed(j)
    \/ \E j \in 1..Len(threads), o \in PublishOutcomes : emit_completed(j, o)
    \/ \E j \in 1..Len(threads), o \in PublishOutcomes : set_failed(j, o)
    \/ \E j \in 1..Len(threads), o \in PublishOutcomes : except_failed(j, o)
    \/ \E s \in SessionIds : get_session_info(s)

Spec == Init /\ [][Next]_vars

\* The pipeline without the email part (no thread reaches it when no request
\* asks for email).
NextCore ==
    \/ \E s \in SessionIds, f \in Filenames : upload_file(s, TRUE, f)
    \/ \E s \in ReqSessionIds, f \in ReqFilenames, o \in Options, st \in BOOLEAN :
          convert_file(s, f, o, st)
    \/ \E j \in 1..Len(threads), o \in PublishOutcomes : emit_processing(j, o)
    \/ \E j \in 1..Len(threads), r1, r2 \in RunOutcomes : convert_to_ieee_format(j, r1, r2)
    \/ \E j \in 1..Len(threads) : set_completed(j)
    \/ \E j \in 1..Len(threads), o \in PublishOutcomes : emit_completed(j, o)
    \/ \E j \in 1..Len(threads), o \in PublishOutcomes : set_failed(j, o)
    \/ \E j \in 1..Len(threads), o \in PublishOutcomes : except_failed(j, o)
    \/ \E s \in SessionIds : get_session_info(s)

\* Several threads, no email, no faults.
SpecJobs == InitJobs /\ [][NextCore]_vars

\* The same with a single upload and a single thread.
InitCore ==
    /\ Start
    /\ cwd_files = {"ieee_template_proper.tex"}
    /\ limits = Limits(SoloFiles, SoloJobs, 0, 0, FALSE)
    /\ config = load_config(NoFile)
    /\ config_file = save_config(NoFile)

SpecCore == InitCore /\ [][NextCore]_vars

\* Threads are scheduled fairly: a thread that can take a step takes it.
\* Nothing makes a client send a request.
thread_step(j) ==
    /\ j \in 1..Len(threads)
    /\ (process_conversion(j) \/ process_file_email(j))

FairSpec ==
    /\ InitSolo
    /\ [][Next]_vars
    /\ \A j \in 1..SoloJobs : WF_vars(thread_step(j))

\* Dismissals alone.
InitDismiss ==
    /\ Start
    /\ cwd_files = {"ieee_template_proper.tex"}
    /\ limits = Limits(0, 0, 0, MaxDismiss, FALSE)
    /\ config = load_config(NoFile)
    /\ config_file = save_config(NoFile)

NextDismiss ==
    \/ \E s \in ReqSessionIds, u \in ReqUpdateIds : dismiss_update(s, u)
    \/ \E h \in 1..Len(handlers) : dismiss_append(h)

SpecDismiss == InitDismiss /\ [][NextDismiss]_vars

\* Several threads that mail their PDF, under a filled-in config.json; the
\* requests name a recipient of their own or none.
MailOptions ==
    { Opt(TRUE, Unset, Unset), Opt(TRUE, "true", "r1@x"), Opt(TRUE, "true", "r2@x") }

FilledInDoc == CHOOSE d \in ConfigDocs : HasKey(d.email, "to_email")

InitMail ==
    /\ Start
    /\ cwd_files = {"ieee_template_proper.tex"}
    /\ limits = Limits(MaxFiles, MaxJobs, 0, 0, TRUE)
    /\ config = load_config(FilledInDoc)
    /\ config_file = save_config(FilledInDoc)

NextMail ==
    \/ \E f \in Filenames : upload_file("s1", TRUE, f)
    \/ \E s \in ReqSessionIds, f \in ReqFilenames, o \in MailOptions, st \in BOOLEAN :
          convert_file(s, f, o, st)
    \/ \E j \in 1..Len(threads), o \in PublishOutcomes : emit_processing(j, o)
    \/ \E j \in 1..Len(threads), r1, r2 \in RunOutcomes : convert_to_ieee_format(j, r1, r2)
    \/ \E j \in 1..Len(threads) : email_override(j)
    \/ \E j \in 1..Len(threads), ok \in BOOLEAN : email_send(j, ok)
    \/ \E j \in 1..Len(threads) : email_restore(j)
    \/ \E j \in 1..Len(threads) : set_completed(j)
    \/ \E j \in 1..Len(threads), o \in PublishOutcomes : emit_completed(j, o)
    \/ \E j \in 1..Len(threads), o \in PublishOutcomes : set_failed(j, o)

SpecMail == InitMail /\ [][NextMail]_vars

\* The construction of the agent alone, over the config.json files there can
\* be: each section is absent, holds some of its keys, or holds them all,
\* with values of the file's own.
Sections == DOMAIN default_config
file_values ==
    [ email  |-> [ smtp_server |-> "smtp.x", smtp_port |-> 25,
                   username |-> "u", password |-> "p",
                   from_email |-> "from@x", to_email |-> "cfg@x" ],
      openai |-> [ api_key |-> "k", model |-> "m",
                   temperature |-> "0.5", max_tokens |-> 100 ],
      pandoc |-> [ engine |-> "pdflatex", template |-> "my.tex",
                   options |-> <<"--toc">> ],
      output |-> [ directory |-> "out" ] ]
some_keys ==
    [ email |-> {"username", "password"}, openai |-> {"api_key"},
      pandoc |-> {"engine"}, output |-> {} ]
SectionForms == {"absent", "some", "all"}
ConfigFile(form) ==
    [ k \in {x \in Sections : form[x] # "absent"} |->
        IF form[k] = "all"
        THEN file_values[k]
        ELSE [kk \in some_keys[k] |-> file_values[k][kk]] ]
ConfigFiles == {ConfigFile(form) : form \in [Sections -> SectionForms]} \cup {NoFile}

InitConfig ==
    /\ Start
    /\ cwd_files = {"ieee_template_proper.tex"}
    /\ limits = Limits(0, 0, 0, 0, FALSE)
    /\ config = NoConfig
    /\ config_file \in ConfigFiles

NextConfig == PDFAgent_init

SpecConfig == InitConfig /\ [][NextConfig]_vars

\* One conversion, over the pandoc sections a config.json can hold and the
\* template files there can be on disk.
PandocDocs ==
    { [ pandoc |-> file_values.pandoc ],
      [ pandoc |-> [ engine |-> "pdflatex" ] ],
      [ pandoc |-> [ template |-> "", options |-> <<"--toc">> ] ],
      NoFile }
TemplateFiles == {"my.tex", "ieee_template_proper.tex"}

InitCmd ==
    /\ Start
    /\ cwd_files \in SUBSET TemplateFiles
    /\ limits = Limits(SoloFiles, SoloJobs, 0, 0, FALSE)
    /\ \E d \in PandocDocs :
          config = load_config(d) /\ config_file = save_config(d)

NextCmd ==
    \/ \E f \in Filenames : upload_file("s1", TRUE, f)
    \/ \E f \in Filenames : convert_file("s1", f, Opt(TRUE, "false", Unset), TRUE)
    \/ \E j \in 1..Len(threads) : emit_processing(j, "returned")
    \/ \E j \in 1..Len(threads), r1, r2 \in RunOutcomes : convert_to_ieee_format(j, r1, r2)
    \/ \E j \in 1..Len(threads) : set_completed(j)
    \/ \E j \in 1..Len(threads) : emit_completed(j, "returned")
    \/ \E j \in 1..Len(threads) : set_failed(j, "returned")

SpecCmd == InitCmd /\ [][NextCmd]_vars

\* Uploads and session queries alone, over the names a request can carry:
\* allowed ones, none, and names whose extension is not allowed.
UploadNames == {"a.md", "b.tex", "A.MD", "d.markdown", "e.latex", "", "c.pdf", "notes", ".md"}

InitUpload ==
    /\ Start
    /\ cwd_files = {"ieee_template_proper.tex"}
    /\ limits = Limits(MaxFiles, 0, 0, 0, FALSE)
    /\ config = load_config(NoFile)
    /\ config_file = save_config(NoFile)

NextUpload ==
    \/ \E s \in SessionIds, h \in BOOLEAN, f \in UploadNames : upload_file(s, h, f)
    \/ \E s \in SessionIds : get_session_info(s)

SpecUpload == InitUpload /\ [][NextUpload]_vars

\* Uploads, session queries and dismissals whose handlers interleave
\* inside get_session.
InitSessions ==
    /\ Start
    /\ cwd_files = {"ieee_template_proper.tex"}
    /\ limits = Limits(MaxFiles, 0, 0, MaxDismiss, FALSE)
    /\ config = load_config(NoFile)
    /\ config_file = save_config(NoFile)

NextSessions ==
    \/ \E k \in RequestKinds, s \in SessionIds :
          \E a \in RequestArgs(k) : get_session_test(k, s, a)
    \/ \E r \in 1..Len(requests) : get_session_create(r)
    \/ \E r \in 1..Len(requests) : get_session_return(r)
    \/ \E h \in 1..Len(handlers) : dismiss_append(h)

SpecSessions == InitSessions /\ [][NextSessions]_vars

\* ------------------------------------------------------------- properties
Terminal == {"completed", "failed"}
ThreadIds == 1..Len(threads)
Ended(t) == t.pc \in {"done", "dead"}
\* The thread's conversion produced a PDF.
Converted(t) == t.pdf_path \notin {Unset, ""}
JobEvents(j) == {e \in events : e.job = j}
\* Both invocations of the thread's conversion exited non-zero.
BothFailed(t) ==
    /\ Len(t.calls) = 2
    /\ t.calls[1].outcome = "nonzero"
    /\ t.calls[2].outcome = "nonzero"
Count(seq, x) == Cardinality({i \in 1..Len(seq) : seq[i] = x})
\* The places a file record can have.
RefSpace == SessionIds \X (1..MaxFiles) \X (1..MaxFiles)

LegalMove(a, b) ==
    \/ a = b
    \/ a = "uploaded" /\ b = "processing"
    \/ a = "processing" /\ b \in Terminal

\* C1: the status of every FileRecord only moves uploaded -> processing ->
\* completed or failed: no step leaves a terminal status, returns to an
\* earlier one or skips processing.
C1_StatusOneWay ==
    [][\A r \in FileRefs : LegalMove(FileAt(r).status, (FileAt(r).status)')]_vars

\* C2: in every reachable state, a FileRecord has a pdf_path (present and not
\* None) if and only if its status is completed.
C2_PdfPathIffCompleted ==
    \A r \in FileRefs :
        (FileAt(r).pdf_path \notin {Unset, None}) <=> (FileAt(r).status = "completed")

\* C3: a job whose conversion succeeded ends completed, and the pdf_path it
\* stores on its record and the one its completed event carries are the
\* output path its own conversion returned.
C3_OwnPdfPath ==
    \A j \in ThreadIds :
        LET t == threads[j] IN
        Converted(t) =>
            /\ Ended(t) => t.wrote = <<"completed">>
            /\ "completed" \in {t.wrote[i] : i \in 1..Len(t.wrote)}
                  => t.latest_pdf = t.pdf_path
            /\ \A e \in JobEvents(j) :
                  e.status = "completed" => e.pdf_path = t.pdf_path

\* C4: when both invocations of a job exited non-zero, the job ends with its
\* record failed, error populated and no pdf_path on the record, and a failed
\* event published.
C4_BothFailEndsFailed ==
    [][\A j \in ThreadIds :
          (~Ended(threads[j]) /\ Ended(threads'[j]) /\ BothFailed(threads'[j])) =>
              /\ (FileAt(threads[j].file).status)' = "failed"
              /\ (FileAt(threads[j].file).error)' # Unset
              /\ (FileAt(threads[j].file).pdf_path)' = Unset
              /\ \E e \in events' : e.job = j /\ e.status = "failed"]_vars

\* C5: a job whose conversion succeeded ends completed and never failed,
\* whatever happens in the email part.
C5_EmailNeverFails ==
    \A j \in ThreadIds :
        (Ended(threads[j]) /\ Converted(threads[j]))
            => threads[j].wrote = <<"completed">>

\* C6: every FileRecord a convert request moved to processing eventually
\* reaches completed or failed.
C6_ProcessingEnds ==
    \A r \in RefSpace :
        (r \in FileRefs /\ FileAt(r).status = "processing")
            ~> (r \in FileRefs /\ FileAt(r).status \in Terminal)

\* C7: the events of a job are one processing event, then exactly one
\* terminal event: never a terminal one first, never two, never none once
\* the job has ended.
C7_EventOrder ==
    \A j \in ThreadIds :
        /\ Cardinality(JobEvents(j)) <= 2
        /\ \A e \in JobEvents(j) :
              /\ e.n = 1 => e.status = "processing"
              /\ e.n = 2 => e.status \in Terminal
        /\ Ended(threads[j]) => Cardinality(JobEvents(j)) = 2

\* The dismissed list the `sessions` map holds for a session id.
Dismissed(s) ==
    IF sessions[s] = 0 THEN <<>> ELSE session_objs[s][sessions[s]].dismissed_updates
HandlersOf(s, u) ==
    {h \in 1..Len(handlers) : handlers[h].session[1] = s /\ handlers[h].update_id = u}
\* Two or more dismiss requests for (s, u) were made and all have returned.
DismissedTwice(s, u) ==
    /\ Cardinality(HandlersOf(s, u)) >= 2
    /\ \A h \in HandlersOf(s, u) : handlers[h].pc = "done"
ExactlyOneEntry ==
    \A s \in SessionIds, u \in UpdateIds :
        DismissedTwice(s, u) => Count(Dismissed(s), u) = 1

\* C8: after two or more dismiss requests for an update id, the session's
\* dismissed set holds exactly one entry for it, and a dismissal leaves the
\* entries of the other ids alone.
C8_DismissOnce ==
    [][/\ ExactlyOneEntry'
       /\ \A h \in 1..Len(handlers) :
             dismiss_append(h) =>
                 \A s \in SessionIds, u \in UpdateIds \ {handlers[h].update_id} :
                     Count(Dismissed(s), u)' = Count(Dismissed(s), u)]_vars

\* The request names no FileRecord of the session: an identifier is missing,
\* the session does not exist, or none of its records has the filename.
NoMatch(s, f) ==
    \/ ~Truthy(s)
    \/ ~Truthy(f)
    \/ sessions[s] = 0
    \/ \A i \in 1..Len(session_objs[s][sessions[s]].files) :
          session_objs[s][sessions[s]].files[i].filename # f

\* C9: a convert request that names no FileRecord of the session is answered
\* with an error (404; 400 when an identifier is missing), starts no thread,
\* publishes no event and changes no FileRecord of any session.
C9_NotFoundIsInert ==
    [][\A s \in ReqSessionIds, f \in ReqFilenames :
          (NoMatch(s, f) /\ \E o \in Options, st \in BOOLEAN : convert_file(s, f, o, st))
              => /\ convert_rejection(s, f) =
                       (IF ~Truthy(s) \/ ~Truthy(f) THEN 400 ELSE 404)
                 /\ threads' = threads
                 /\ events' = events
                 /\ \A r \in FileRefs : FileAt(r)' = FileAt(r)]_vars

\* A not-found request has been answered (it left an empty session behind)
\* while another session holds a converted record.
C9_Witness ==
    /\ \E s \in SessionIds :
          sessions[s] # 0 /\ session_objs[s][sessions[s]].files = <<>>
    /\ \E r \in FileRefs : FileAt(r).status = "completed"
    /\ Len(threads) = 1
    /\ Cardinality(events) = 2

\* C10: one conversion invokes pandoc at most twice: the primary first, the
\* fallback once and only after a non-zero exit of the primary, nothing after
\* a zero exit or after the fallback.
C10_AtMostOneFallback ==
    \A j \in ThreadIds :
        LET c == threads[j].calls IN
        /\ Len(c) <= 2
        /\ Len(c) >= 1 => c[1].kind = "primary"
        /\ Len(c) = 2 => (c[1].outcome = "nonzero" /\ c[2].kind = "fallback")
        /\ (Len(c) >= 1 /\ c[1].outcome = "nonzero") => Len(c) = 2
        /\ threads[j].pc \notin {"emit_processing", "convert"} \/ c = <<>>

\* A conversion whose primary failed and whose fallback succeeded has ended
\* completed.
C10_Witness ==
    \E j \in ThreadIds :
        /\ Ended(threads[j])
        /\ Len(threads[j].calls) = 2
        /\ threads[j].calls[2].outcome = "zero"
        /\ threads[j].wrote = <<"completed">>

\* C11: at any time at most one background job is in flight for a given
\* FileRecord, whatever convert requests are sent.
C11_OneJobPerRecord ==
    \A j \in ThreadIds, k \in ThreadIds :
        (j # k /\ ~Ended(threads[j]) /\ ~Ended(threads[k]))
            => threads[j].file # threads[k].file

\* C12: at the point a completed StatusEvent of a job goes out, the stored
\* FileRecord of that job does not read processing.
C12_CompletedEventMatchesRecord ==
    [][\A j \in ThreadIds :
          (\E e \in events' \ events : e.job = j /\ e.status = "completed")
              => \A i \in 1..Len(session_info(threads[j].session_id).files') :
                    (session_info(threads[j].session_id).files[i])'.filename
                          = FileAt(threads[j].file).filename
                      => (session_info(threads[j].session_id).files[i])'.status
                             # "processing"]_vars

\* The recipient a job's message is meant for: the one its request gives,
\* otherwise the one config.json names.
own_recipient(t) ==
    IF Truthy(t.email_recipient)
    THEN t.email_recipient
    ELSE load_config(FilledInDoc).email.to_email

\* C13: every message a job hands to SMTP is addressed to that job's own
\* recipient, also when jobs with different overrides run together.
C13_OwnRecipient ==
    [][\A j \in ThreadIds :
          Len(threads'[j].mailed) > Len(threads[j].mailed)
              => threads'[j].mailed[Len(threads'[j].mailed)] = own_recipient(threads[j])]_vars

\* The configuration has every key of the file with the file's value, and
\* every key of the defaults the file lacks with the default value, section
\* by section and key by key.
Backfilled(file, cfg) ==
    /\ \A k \in DOMAIN file :
          /\ k \in DOMAIN cfg
          /\ \A kk \in DOMAIN file[k] :
                kk \in DOMAIN cfg[k] /\ cfg[k][kk] = file[k][kk]
    /\ \A k \in DOMAIN default_config :
          /\ k \in DOMAIN cfg
          /\ \A kk \in DOMAIN default_config[k] :
                /\ kk \in DOMAIN cfg[k]
                /\ (k \notin DOMAIN file \/ kk \notin DOMAIN file[k])
                      => cfg[k][kk] = default_config[k][kk]

\* C14: the configuration loaded from an existing config.json keeps every
\* value of the file and has every default the file lacks, at the section
\* level and inside each section.
C14_ConfigBackfilled ==
    config # NoConfig => Backfilled(config_file, config)

\* An argument list without the template flag and the value that follows it.
RECURSIVE drop_template_flag(_)
drop_template_flag(cmd) ==
    IF cmd = <<>>
    THEN <<>>
    ELSE IF Head(cmd) = "--template"
         THEN (IF Len(cmd) >= 2 THEN drop_template_flag(Tail(Tail(cmd))) ELSE <<>>)
         ELSE <<Head(cmd)>> \o drop_template_flag(Tail(cmd))

\* C15: the fallback's argument list is the primary's without the template
\* flag and its value, every other argument kept in order (the same list
\* when the primary had no template flag).
C15_FallbackDropsTemplate ==
    \A j \in ThreadIds :
        Len(threads[j].calls) = 2
            => threads[j].calls[2].args = drop_template_flag(threads[j].calls[1].args)

has_template_flag(cmd) == \E i \in 1..Len(cmd) : cmd[i] = "--template"
configured_template == get(config.pandoc, "template", None)

\* C16 as stated: the primary carries the template flag only if a template
\* is configured and that file is on disk; with the configured template
\* absent from disk the primary goes out without the flag, and it does go
\* out.
C16_FlagOnlyForConfiguredTemplate ==
    \A j \in ThreadIds :
        /\ threads[j].pc \notin {"emit_processing", "convert"} => threads[j].calls # <<>>
        /\ threads[j].calls # <<>> =>
              LET cmd == threads[j].calls[1].args IN
              /\ has_template_flag(cmd)
                    => (Truthy(configured_template) /\ configured_template \in cwd_files)
              /\ (Truthy(configured_template) /\ configured_template \notin cwd_files)
                    => ~has_template_flag(cmd)

\* The template the command is built for: the configured one, and
\* ieee_template_proper.tex when none is configured.
used_template ==
    IF Truthy(configured_template) THEN configured_template ELSE "ieee_template_proper.tex"

\* C16: the primary carries the template flag, with the path of the
\* configured template or of ieee_template_proper.tex when none is configured,
\* exactly if that file is on disk; without it the primary goes out without
\* the flag, and it does go out.
C16_FlagOnlyForTemplateOnDisk ==
    \A j \in ThreadIds :
        /\ threads[j].pc \notin {"emit_processing", "convert"} => threads[j].calls # <<>>
        /\ threads[j].calls # <<>> =>
              LET cmd == threads[j].calls[1].args IN
              /\ has_template_flag(cmd) <=> used_template \in cwd_files
              /\ \A i \in 1..Len(cmd) :
                    cmd[i] = "--template" => (i < Len(cmd) /\ cmd[i + 1] = used_template)
              /\ drop_template_flag(cmd) =
                    << "pandoc", input_file(FileAt(threads[j].file).filename), "-o",
                       output_file(FileAt(threads[j].file).filename),
                       "--pdf-engine", get(config.pandoc, "engine", "xelatex") >>
                    \o ieee_options \o get(config.pandoc, "options", <<>>)

\* A conversion ran and ended completed although the configured template is
\* not on disk: its primary command had no template flag.
C16_Witness ==
    \E j \in ThreadIds :
        /\ Truthy(configured_template)
        /\ configured_template \notin cwd_files
        /\ threads[j].calls # <<>>
        /\ ~has_template_flag(threads[j].calls[1].args)
        /\ threads[j].wrote = <<"completed">>

\* The request asked for email: its options carry send_email = true.
asked_email(t) == t.options.is_dict /\ t.options.send_email = "true"

\* C17: a job calls send_email at most once; it calls it only for a request
\* whose options.send_email is true and after a conversion that succeeded,
\* and a job of such a request whose conversion succeeded does call it.
C17_EmailIffAsked ==
    [][\A j \in ThreadIds :
          /\ threads'[j].sends <= 1
          /\ threads'[j].sends > threads[j].sends
                => (asked_email(threads[j]) /\ Converted(threads[j]))
          /\ (~Ended(threads[j]) /\ Ended(threads'[j])
                  /\ asked_email(threads[j]) /\ Converted(threads[j]))
                => threads[j].sends = 1]_vars

\* The file record at ref after the step.
NextFileAt(ref) == session_objs'[ref[1]][ref[2]].files[ref[3]]

NotAllowed == {"c.pdf", "notes", ".md"}
\* The file sequence the `sessions` map holds for s in a store <<map, objs>>.
FilesOf(map, objs, s) == IF map[s] = 0 THEN <<>> ELSE objs[s][map[s]].files

\* C19: whatever the store holds, an upload without a file part, with an
\* empty filename or with a name whose extension is not allowed leaves the
\* store as it is; any other upload appends one record with status uploaded
\* at the end of the named session's file sequence and changes nothing else.
C19_UploadFrame ==
    \A s \in SessionIds, h \in BOOLEAN, f \in UploadNames :
        LET map == upload_map(s, h, f)
            objs == upload_objs(s, h, f)
        IN  IF ~h \/ f = "" \/ f \in NotAllowed
            THEN map = sessions /\ objs = session_objs
            ELSE /\ map[s] # 0
                 /\ Len(FilesOf(map, objs, s)) = Len(FilesOf(sessions, session_objs, s)) + 1
                 /\ SubSeq(FilesOf(map, objs, s), 1, Len(FilesOf(sessions, session_objs, s)))
                       = FilesOf(sessions, session_objs, s)
                 /\ LET new == FilesOf(map, objs, s)[Len(FilesOf(map, objs, s))]
                    IN  new.filename = f /\ new.status = "uploaded"
                 /\ \A r \in FileRefs : objs[r[1]][r[2]].files[r[3]] = FileAt(r)
                 /\ \A o \in SessionIds \ {s} :
                       map[o] = sessions[o] /\ objs[o] = session_objs[o]

\* Two uploads were accepted for one session: the second record follows the
\* first, both read uploaded.
C19_Witness ==
    \E s \in SessionIds :
        /\ Len(FilesOf(sessions, session_objs, s)) = 2
        /\ FilesOf(sessions, session_objs, s)[1].filename = "a.md"
        /\ FilesOf(sessions, session_objs, s)[2].filename = "A.MD"
        /\ \A i \in 1..2 : FilesOf(sessions, session_objs, s)[i].status = "uploaded"

\* Thread j is inside the email step of process_file (pdf_agent.py:209-218).
in_email_step(j) == threads[j].pc \in {"email_send", "email_restore"}

\* C20: whenever no job is inside its email step, the recipient of the
\* shared configuration is the one config.json gave it at start-up.
C20_OverrideIsTemporary ==
    (\A j \in 1..Len(threads) : ~in_email_step(j))
        => config.email.to_email = load_config(config_file).email.to_email

\* The uploads that have answered success.
Uploaded == {r \in 1..Len(requests) :
               requests[r].kind = "upload" /\ requests[r].pc = "returned"}

\* C21: the record an upload appended before it answered success is in the
\* file sequence of the session its request named, in every later state.
C21_NoUploadLost ==
    \A r \in Uploaded :
        LET ref == requests[r].ref
            files == FilesOf(sessions, session_objs, requests[r].session_id)
        IN  /\ sessions[ref[1]] = ref[2]
            /\ ref[3] <= Len(files)
            /\ files[ref[3]] = FileAt(ref)
=============================================================================
